---- MODULE Spec2Model ----
(***************************************************************************)
(* butterfly-prolog: the compiler that flattens a Program (clauses and     *)
(* queries) into the heap of tagged entries, with its symbol table, its    *)
(* clause and query descriptors and the initial spines.                    *)
(*                                                                         *)
(* Heap indices are 0-based as in the source; the buffer is a TLA+         *)
(* sequence, so slot i of the source is buffer[i + 1].                      *)
(***************************************************************************)
EXTENDS Integers, Sequences, FiniteSets, TLC

VARIABLES heap, clauses, symbol_table, current_clause_variables, queries,
          spines, trail, pc, calls, units, op

vars == <<heap, clauses, symbol_table, current_clause_variables, queries,
          spines, trail, pc, calls, units, op>>

(***************************************************************************)
(* Bounds of the model.                                                    *)
(***************************************************************************)
\* clauses and queries compiled by one Compiler, over all calls of compile
MaxUnits == 3
\* calls of compile on one Compiler
MaxCompiles == 2
\* slots of a Heap used on its own
MaxHeap == 4
\* the largest size passed to alloc on a Heap used on its own
MaxAlloc == 2

(***************************************************************************)
(* ast.rs: SimpleTerm, Term, CompoundTerm, Clause, Query.                  *)
(***************************************************************************)
Atom(text) == [kind |-> "Atom", text |-> text]
Variable(text) == [kind |-> "Variable", text |-> text]
Simple(term) == [kind |-> "Simple", term |-> term]
Compound(name, parameters) ==
    [kind |-> "Compound", name |-> name, parameters |-> parameters]
Clause(head, body) == [head |-> head, body |-> body]
Query(sub_queries) == [sub_queries |-> sub_queries]

\* "a (a (b e f)) c", the term of tests::make_compound_term
make_compound_term ==
    Compound(Atom("a"),
        << Compound(Atom("a"),
               << Compound(Atom("b"), << Simple(Atom("e")), Simple(Atom("f")) >>) >>),
           Simple(Atom("c")) >>)

\* The clauses a program is drawn from.
ProgramClauses ==
    { \* a.
      Clause(Simple(Atom("a")), << >>),
      \* a if B and C and B
      Clause(Simple(Atom("a")),
             << Simple(Variable("B")), Simple(Variable("C")), Simple(Variable("B")) >>),
      \* a (a (b e f)) c if x and Y
      Clause(make_compound_term, << Simple(Atom("x")), Simple(Variable("Y")) >>),
      \* X if a X and b(): a bare variable as head, a compound goal without
      \* parameters
      Clause(Simple(Variable("X")),
             << Compound(Atom("a"), << Simple(Variable("X")) >>),
                Compound(Atom("b"), << >>) >>),
      \* a (b X) X if b Y X
      Clause(Compound(Atom("a"),
                 << Compound(Atom("b"), << Simple(Variable("X")) >>), Simple(Variable("X")) >>),
             << Compound(Atom("b"), << Simple(Variable("Y")), Simple(Variable("X")) >>) >>),
      \* a (b (c X)) (c Y) Y
      Clause(Compound(Atom("a"),
                 << Compound(Atom("b"), << Compound(Atom("c"), << Simple(Variable("X")) >>) >>),
                    Compound(Atom("c"), << Simple(Variable("Y")) >>),
                    Simple(Variable("Y")) >>),
             << >>),
      \* X a X if X: a variable as functor
      Clause(Compound(Variable("X"), << Simple(Atom("a")), Simple(Variable("X")) >>),
             << Simple(Variable("X")) >>) }

\* The queries a program is drawn from.
ProgramQueries ==
    { Query(<< >>),
      \* a and b
      Query(<< Simple(Atom("a")), Simple(Atom("b")) >>),
      \* X and a X Y
      Query(<< Simple(Variable("X")),
               Compound(Atom("a"), << Simple(Variable("X")), Simple(Variable("Y")) >>) >>) }

(***************************************************************************)
(* heap.rs                                                                 *)
(***************************************************************************)
HeapEntry_new(tag, data) == [tag |-> tag, data |-> data]

HeapEntry_empty == [tag |-> "Uninitialized", data |-> 0]

is_var_or_unify(entry) == entry.tag = "Variable" \/ entry.tag = "Unify"

Heap_new == << >>

Heap_len(buffer) == Len(buffer)

\* resize(index + size, empty); the start index is returned with the buffer
\* the end of the new array is returned
Heap_alloc_end(buffer, size) ==
    [buffer |-> buffer \o [i \in 1..size |-> HeapEntry_empty],
     index |-> Len(buffer) + size]

Heap_alloc(buffer, size) ==
    [buffer |-> buffer \o [i \in 1..size |-> HeapEntry_empty],
     index |-> Len(buffer)]

\* self.buffer[index]: indexing a Vec at or past its length panics
in_bounds(buffer, index) == index < Len(buffer)

\* the entry is inserted at index, the entries from there on move up
Heap_write_insert(buffer, index, entry) ==
    SubSeq(buffer, 1, index) \o << entry >> \o SubSeq(buffer, index + 1, Len(buffer))

Heap_write(buffer, index, entry) == [buffer EXCEPT ![index + 1] = entry]

Heap_read(buffer, index) == buffer[index + 1]

(***************************************************************************)
(* compiler.rs: SymbolTable                                                *)
(***************************************************************************)
EmptyMap == [x \in {} |-> 0]

MapInsert(map, key, value) ==
    [k \in DOMAIN map \cup {key} |-> IF k = key THEN value ELSE map[k]]

SymbolTable_new == [symbols |-> << >>, symbols_to_indeces |-> EmptyMap]

\* the index is taken as the length after the push
SymbolTable_push_len(table, symbol) ==
    LET symbols == Append(table.symbols, symbol)
        index == Len(symbols)
    IN  [table |-> [symbols |-> symbols,
                    symbols_to_indeces |->
                        MapInsert(table.symbols_to_indeces, symbol, index)],
         index |-> index]

SymbolTable_push(table, symbol) ==
    LET symbols == Append(table.symbols, symbol)
        index == Len(symbols) - 1
    IN  [table |-> [symbols |-> symbols,
                    symbols_to_indeces |->
                        MapInsert(table.symbols_to_indeces, symbol, index)],
         index |-> index]

SymbolTable_get(table, index) == table.symbols[index + 1]

\* Option<usize>: << >> is None, << index >> is Some(index)
SymbolTable_get_index(table, symbol) ==
    IF symbol \in DOMAIN table.symbols_to_indeces
    THEN << table.symbols_to_indeces[symbol] >>
    ELSE << >>

(***************************************************************************)
(* compiler.rs: Compiler.  The pure operators take and return `self`, the  *)
(* record of the Compiler's fields.                                        *)
(***************************************************************************)
Compiler_new ==
    [heap |-> Heap_new,
     clauses |-> << >>,
     symbol_table |-> SymbolTable_new,
     current_clause_variables |-> EmptyMap,
     queries |-> << >>,
     spines |-> << >>,
     trail |-> << >>]

\* the map is kept from one clause to the next
clear_kept(map) == map

\* self.current_clause_variables.clear()
clear(map) == EmptyMap

\* a simple term wrapped as a term without cells
simple_term_arity_none == 1 - 1

\* "simple terms always have arity 1"
simple_term_arity == 1

\* the Arity entry is written to the first cell of the heap
create_arity_entry_at_start(self) ==
    LET a == Heap_alloc(self.heap, 1)
    IN  [self EXCEPT !.heap =
            Heap_write(a.buffer, 0, HeapEntry_new("Arity", simple_term_arity))]

create_arity_entry_for_simple_term(self) ==
    LET a == Heap_alloc(self.heap, 1)
    IN  [self EXCEPT !.heap =
            Heap_write(a.buffer, a.index, HeapEntry_new("Arity", simple_term_arity))]

compile_simple_term_no_alloc(self, term, index) ==
    IF term.kind = "Atom"
    THEN LET found == SymbolTable_get_index(self.symbol_table, term.text)
             pushed == SymbolTable_push(self.symbol_table, term.text)
             table == IF found # << >> THEN self.symbol_table ELSE pushed.table
             symbol_index == IF found # << >> THEN found[1] ELSE pushed.index
         IN  [self EXCEPT
                 !.symbol_table = table,
                 !.heap = Heap_write(@, index, HeapEntry_new("Constant", symbol_index))]
    ELSE IF term.text \in DOMAIN self.current_clause_variables
         THEN \* Variable has been seen before
              [self EXCEPT !.heap = Heap_write(@, index,
                  HeapEntry_new("Unify", self.current_clause_variables[term.text]))]
         ELSE \* First time seeing variable
              [self EXCEPT
                  !.heap = Heap_write(@, index, HeapEntry_new("Variable", index)),
                  !.current_clause_variables = MapInsert(@, term.text, index)]

\* the slot is reserved and left as alloc made it
compile_simple_term_unwritten(self, term) ==
    LET a == Heap_alloc(self.heap, 1)
    IN  [self |-> [self EXCEPT !.heap = a.buffer], index |-> a.index]

compile_simple_term(self, term) ==
    LET a == Heap_alloc(self.heap, 1)
    IN  [self |-> compile_simple_term_no_alloc(
                      [self EXCEPT !.heap = a.buffer], term, a.index),
         index |-> a.index]

\* let arity = term.parameters.len() + 1
compound_arity(term) == Len(term.parameters) + 1

\* one cell too many is allocated
block_size_padded(arity) == 2 + arity

\* the size of the block of a compound term: alloc(1 + arity)
block_size(arity) == 1 + arity

\* the Arity cell holds the number of parameters only
arity_cell_parameters_only(arity) == HeapEntry_new("Arity", arity - 1)

arity_cell(arity) == HeapEntry_new("Arity", arity)

\* the reference points past the Arity cell of the subterm
subterm_reference_past(subterm_index) == HeapEntry_new("Reference", subterm_index + 1)

\* the entry the parent's slot gets for a compound parameter
subterm_reference(subterm_index) == HeapEntry_new("Reference", subterm_index)

RECURSIVE compile_compound_term(_, _), compile_parameters(_, _, _, _)

compile_compound_term(self, term) ==
    LET arity == compound_arity(term)
        a == Heap_alloc(self.heap, block_size(arity))
        start_index == a.index
        s1 == [self EXCEPT !.heap = Heap_write(a.buffer, start_index, arity_cell(arity))]
        s2 == compile_simple_term_no_alloc(s1, term.name, start_index + 1)
    IN  [self |-> compile_parameters(s2, term.parameters, 1, start_index + 1),
         index |-> start_index]

\* the loop over term.parameters from its n-th element on; index is the slot
\* written last
compile_parameters(self, parameters, n, index) ==
    IF n > Len(parameters)
    THEN self
    ELSE LET param == parameters[n]
             slot == index + 1
         IN  IF param.kind = "Simple"
             THEN compile_parameters(
                      compile_simple_term_no_alloc(self, param.term, slot),
                      parameters, n + 1, slot)
             ELSE LET sub == compile_compound_term(self, param)
                  IN  compile_parameters(
                          [sub.self EXCEPT !.heap =
                              Heap_write(@, slot, subterm_reference(sub.index))],
                          parameters, n + 1, slot)

compile_term(self, term) ==
    IF term.kind = "Compound"
    THEN compile_compound_term(self, term)
    ELSE compile_simple_term(self, term.term)

\* one top-level term of a clause body or of a query: the index where it
\* starts, the synthetic Arity entry of a simple term, the term
compile_toplevel_term(self, term) ==
    LET term_index == Heap_len(self.heap)
        s1 == IF term.kind = "Simple"
              THEN create_arity_entry_for_simple_term(self)
              ELSE self
    IN  [self |-> compile_term(s1, term).self, index |-> term_index]

deref_once(self, pointer) == Heap_read(self.heap, pointer.data)

RECURSIVE deref(_, _)
deref(self, pointer) ==
    IF is_var_or_unify(pointer)
    THEN LET dereferenced == deref_once(self, pointer)
         IN  IF dereferenced = pointer
             THEN pointer
             ELSE deref(self, dereferenced)
    ELSE pointer

\* the subterms are read from the Arity cell on
subterms_start_at_arity(reference) == reference.data

\* let start_index = reference.data + 1
subterms_start(reference) == reference.data + 1

get_subterms(self, reference) ==
    LET start_index == subterms_start(reference)
        arity == deref_once(self, reference).data
    IN  [i \in 1..arity |->
            LET entry == deref(self, Heap_read(self.heap, start_index + (i - 1)))
            IN  IF entry.tag = "Reference" THEN deref_once(self, entry) ELSE entry]

\* the entry of the terms list for the term that starts at index
term_reference(index) == HeapEntry_new("Reference", index)

\* the index is put in front of the list
push_front(terms, term_index) == << term_index >> \o terms

\* terms.push(term_index)
push(terms, term_index) == Append(terms, term_index)

\* the loop over clause.body (or query.sub_queries) from its n-th element on
RECURSIVE compile_terms(_, _, _, _)
compile_terms(self, body, n, terms) ==
    IF n > Len(body)
    THEN [self |-> self, terms |-> terms]
    ELSE LET t == compile_toplevel_term(self, body[n])
         IN  compile_terms(t.self, body, n + 1, push(terms, t.index))

ClauseDescriptor(base, length, neck, terms, head_subterms) ==
    [base |-> base, length |-> length, neck |-> neck, terms |-> terms,
     head_subterms |-> head_subterms]

compile_clause(self, clause) ==
    LET s0 == [self EXCEPT !.current_clause_variables = clear(@)]
        base == Heap_len(s0.heap)
        s1 == compile_toplevel_term(s0, clause.head).self
        neck == Heap_len(s1.heap)
        b == compile_terms(s1, clause.body, 1, << base >>)
        s2 == b.self
        length == Heap_len(s2.heap) - base
        terms == [j \in 1..Len(b.terms) |-> term_reference(b.terms[j])]
        head_subterms == get_subterms(s2, terms[1])
    IN  [s2 EXCEPT !.clauses =
            Append(@, ClauseDescriptor(base, length, neck, terms, head_subterms))]

QueryDescriptor(base, length, terms) ==
    [base |-> base, length |-> length, terms |-> terms]

compile_query(self, query) ==
    LET base == Heap_len(self.heap)
        b == compile_terms(self, query.sub_queries, 1, << >>)
        s1 == b.self
        length == Heap_len(s1.heap) - base
        terms == [j \in 1..Len(b.terms) |-> term_reference(b.terms[j])]
    IN  [s1 EXCEPT !.queries = Append(@, QueryDescriptor(base, length, terms))]

Spine_new(base, trail_top, goals, unifiable_clauses, num_unified_clauses) ==
    [base |-> base,
     trail_top |-> trail_top,
     goals |-> goals,
     dereferenced_elements |-> << >>,
     unifiable_clauses |-> unifiable_clauses,
     num_unified_clauses |-> num_unified_clauses]

\* the clauses are numbered from 1
clause_indices_from_one(cs) == [i \in 1..Len(cs) |-> i]

\* self.clauses.clone().into_iter().enumerate().map(|(i, _)| i).collect()
clause_indices(cs) == [i \in 1..Len(cs) |-> i - 1]

\* the queries are taken in the order given
rev_kept(qs) == qs

\* queries.into_iter().rev()
rev(qs) == [k \in 1..Len(qs) |-> qs[Len(qs) + 1 - k]]

create_initial_spine(self, qs) ==
    LET base == Heap_len(self.heap)
        unifiable_clauses == clause_indices(self.clauses)
        reversed == rev(qs)
    IN  [self EXCEPT !.spines = @ \o
            [k \in 1..Len(reversed) |->
                Spine_new(base, Len(self.trail), reversed[k].terms,
                          unifiable_clauses, 0)]]

(***************************************************************************)
(* What the layout of a term should be, computed from the AST alone: the   *)
(* properties compare the heap with it.                                    *)
(***************************************************************************)
RECURSIVE Flatten(_)
Flatten(ss) == IF ss = << >> THEN << >> ELSE Head(ss) \o Flatten(Tail(ss))

RECURSIVE Sum(_)
Sum(ns) == IF ns = << >> THEN 0 ELSE Head(ns) + Sum(Tail(ns))

\* the cells of a compound term, its nested compound terms included
RECURSIVE TermSize(_)
TermSize(term) ==
    2 + Len(term.parameters)
      + Sum([j \in 1..Len(term.parameters) |->
                IF term.parameters[j].kind = "Compound"
                THEN TermSize(term.parameters[j])
                ELSE 0])

\* the cells of a top-level term
TopSize(term) == IF term.kind = "Simple" THEN 2 ELSE TermSize(term)

\* where the block of the j-th parameter (a compound term) of the compound
\* term at start lies: after the parent's block and after the whole subtrees
\* of the compound parameters before it
SubStart(term, start, j) ==
    start + 2 + Len(term.parameters)
      + Sum([i \in 1..(j - 1) |->
                IF term.parameters[i].kind = "Compound"
                THEN TermSize(term.parameters[i])
                ELSE 0])

\* the blocks [start, term] of a compound term and of all compound terms
\* nested in it, in depth-first pre-order
RECURSIVE Blocks(_, _)
Blocks(term, start) ==
    << [start |-> start, term |-> term] >>
    \o Flatten([j \in 1..Len(term.parameters) |->
                   IF term.parameters[j].kind = "Compound"
                   THEN Blocks(term.parameters[j], SubStart(term, start, j))
                   ELSE << >>])

\* the simple terms [index, term] of a compound term in textual order, each
\* with the heap index of its cell
RECURSIVE Occurrences(_, _)
Occurrences(term, start) ==
    << [index |-> start + 1, term |-> term.name] >>
    \o Flatten([j \in 1..Len(term.parameters) |->
                   IF term.parameters[j].kind = "Compound"
                   THEN Occurrences(term.parameters[j], SubStart(term, start, j))
                   ELSE << [index |-> start + 1 + j,
                            term |-> term.parameters[j].term] >>])

\* where the top-level terms ts of a unit at base start
TopStarts(ts, base) ==
    [j \in 1..Len(ts) |-> base + Sum([i \in 1..(j - 1) |-> TopSize(ts[i])])]

\* a clause or query and the layout it should have at base: its top-level
\* terms and where they start, its blocks, its simple terms in textual order
Unit(kind, ast, base) ==
    LET ts == IF kind = "clause" THEN << ast.head >> \o ast.body ELSE ast.sub_queries
        starts == TopStarts(ts, base)
    IN  [kind |-> kind,
         ast |-> ast,
         terms |-> ts,
         starts |-> starts,
         blocks |-> Flatten([j \in 1..Len(ts) |->
                       IF ts[j].kind = "Compound"
                       THEN Blocks(ts[j], starts[j])
                       ELSE << >>]),
         occ |-> Flatten([j \in 1..Len(ts) |->
                       IF ts[j].kind = "Compound"
                       THEN Occurrences(ts[j], starts[j])
                       ELSE << [index |-> starts[j] + 1, term |-> ts[j].term] >>])]

(***************************************************************************)
(* The state machine: Compiler::new, then calls of compile(program).  A    *)
(* call runs the loop over program.clauses, then the loop over             *)
(* program.queries, then create_initial_spine; pc is its position.  The    *)
(* program is any sequence of clauses followed by any sequence of queries, *)
(* so each turn of a loop draws its next element.  units records the       *)
(* clauses and queries compiled so far, in order, each with the layout its *)
(* AST should have at the base of its descriptor.                          *)
(***************************************************************************)
Self ==
    [heap |-> heap,
     clauses |-> clauses,
     symbol_table |-> symbol_table,
     current_clause_variables |-> current_clause_variables,
     queries |-> queries,
     spines |-> spines,
     trail |-> trail]

Becomes(self) ==
    /\ heap' = self.heap
    /\ clauses' = self.clauses
    /\ symbol_table' = self.symbol_table
    /\ current_clause_variables' = self.current_clause_variables
    /\ queries' = self.queries
    /\ spines' = self.spines
    /\ trail' = self.trail

\* the last operation on a Heap used on its own: its name, the size or the
\* index passed, the entry passed or read, the index returned
HeapOp(name, size, index, entry) ==
    [name |-> name, size |-> size, index |-> index, entry |-> entry]

NoOp == HeapOp("none", 0, 0, HeapEntry_empty)

Init ==
    /\ heap = Compiler_new.heap
    /\ clauses = Compiler_new.clauses
    /\ symbol_table = Compiler_new.symbol_table
    /\ current_clause_variables = Compiler_new.current_clause_variables
    /\ queries = Compiler_new.queries
    /\ spines = Compiler_new.spines
    /\ trail = Compiler_new.trail
    /\ pc = "idle"
    /\ calls = 0
    /\ units = << >>
    /\ op = NoOp

\* compile(program) is entered
Compile ==
    /\ pc = "idle"
    /\ calls < MaxCompiles
    /\ pc' = "clauses"
    /\ calls' = calls + 1
    /\ UNCHANGED <<heap, clauses, symbol_table, current_clause_variables,
                   queries, spines, trail, units, op>>

\* one turn of `for clause in program.clauses`
CompileClause(clause) ==
    /\ pc = "clauses"
    /\ Len(units) < MaxUnits
    /\ Becomes(compile_clause(Self, clause))
    /\ units' = Append(units, Unit("clause", clause, clauses'[Len(clauses')].base))
    /\ UNCHANGED <<pc, calls, op>>

\* one turn of `for query in program.queries`
CompileQuery(query) ==
    /\ pc \in {"clauses", "queries"}
    /\ Len(units) < MaxUnits
    /\ Becomes(compile_query(Self, query))
    /\ units' = Append(units, Unit("query", query, queries'[Len(queries')].base))
    /\ pc' = "queries"
    /\ UNCHANGED <<calls, op>>

\* the loops are over: create_initial_spine(self.queries.clone()), and
\* compile returns
CreateInitialSpine ==
    /\ pc \in {"clauses", "queries"}
    /\ Becomes(create_initial_spine(Self, queries))
    /\ pc' = "idle"
    /\ UNCHANGED <<calls, units, op>>

Next ==
    \/ Compile
    \/ \E clause \in ProgramClauses : CompileClause(clause)
    \/ \E query \in ProgramQueries : CompileQuery(query)
    \/ CreateInitialSpine

Spec == Init /\ [][Next]_vars

(***************************************************************************)
(* A Heap used on its own, as in the tests of heap.rs: Heap::new, then     *)
(* calls of alloc, write and read.  An index at or past the length makes   *)
(* write and read panic, which ends the program.                           *)
(***************************************************************************)
\* the entries written
HeapEntries ==
    { HeapEntry_new("Variable", 5),
      HeapEntry_new("Constant", 0),
      HeapEntry_new("Arity", 1) }

NotTheHeap == <<clauses, symbol_table, current_clause_variables, queries,
                spines, trail, calls, units>>

Alloc(size) ==
    /\ pc = "idle"
    /\ Heap_len(heap) + size <= MaxHeap
    /\ LET a == Heap_alloc(heap, size)
       IN  /\ heap' = a.buffer
           /\ op' = HeapOp("alloc", size, a.index, HeapEntry_empty)
    /\ UNCHANGED <<pc, NotTheHeap>>

Write(index, entry) ==
    /\ pc = "idle"
    /\ op' = HeapOp("write", 0, index, entry)
    /\ IF in_bounds(heap, index)
       THEN /\ heap' = Heap_write(heap, index, entry)
            /\ pc' = pc
       ELSE /\ heap' = heap
            /\ pc' = "panicked"
    /\ UNCHANGED NotTheHeap

Read(index) ==
    /\ pc = "idle"
    /\ IF in_bounds(heap, index)
       THEN /\ op' = HeapOp("read", 0, index, Heap_read(heap, index))
            /\ pc' = pc
       ELSE /\ op' = HeapOp("read", 0, index, HeapEntry_empty)
            /\ pc' = "panicked"
    /\ UNCHANGED <<heap, NotTheHeap>>

HeapNext ==
    \/ \E size \in 0..MaxAlloc : Alloc(size)
    \/ \E index \in 0..MaxHeap : \E entry \in HeapEntries : Write(index, entry)
    \/ \E index \in 0..MaxHeap : Read(index)

HeapSpec == Init /\ [][HeapNext]_vars

(***************************************************************************)
(* The compiled units against their descriptors and the heap.              *)
(***************************************************************************)
KindCount(n, kind) == Cardinality({m \in 1..n : units[m].kind = kind})

\* the descriptor of the n-th compiled unit
Descriptor(n) ==
    IF units[n].kind = "clause"
    THEN clauses[KindCount(n, "clause")]
    ELSE queries[KindCount(n, "query")]

ClauseUnits == {n \in 1..Len(units) : units[n].kind = "clause"}
QueryUnits == {n \in 1..Len(units) : units[n].kind = "query"}

UnitTerms(n) == units[n].terms
TopStart(n, j) == units[n].starts[j]
UnitBlocks(n) == units[n].blocks
UnitOccurrences(n) == units[n].occ

Range(f) == {f[x] : x \in DOMAIN f}

AllBlocks == UNION {Range(UnitBlocks(n)) : n \in 1..Len(units)}

InHeap(i) == 0 <= i /\ i < Heap_len(heap)

Cell(i) == Heap_read(heap, i)

\* the cell at index i is the compiled form of the simple term
CellIs(i, term) ==
    /\ InHeap(i)
    /\ IF term.kind = "Atom"
       THEN /\ Cell(i).tag = "Constant"
            /\ Cell(i).data < Len(symbol_table.symbols)
            /\ SymbolTable_get(symbol_table, Cell(i).data) = term.text
       ELSE Cell(i).tag \in {"Variable", "Unify"}

(***************************************************************************)
(* C1                                                                      *)
(***************************************************************************)
FirstOccurrence(occ, p) ==
    CHOOSE q \in 1..p :
        /\ occ[q].term = occ[p].term
        /\ \A r \in 1..(q - 1) : occ[r].term # occ[p].term

\* C1: in every compiled clause the first textual occurrence of a variable
\* name is the cell Variable(i) at heap index i, every later occurrence of
\* that name in the clause is Unify(i) with the same i, and no Unify cell of
\* a clause points outside the clause, so a name used in two clauses has a
\* Variable cell of its own in each.
C1_VariableOccurrences ==
    \A n \in ClauseUnits :
        LET occ == units[n].occ
            d == Descriptor(n)
        IN  /\ \A p \in 1..Len(occ) :
                   occ[p].term.kind = "Variable" =>
                       LET first == FirstOccurrence(occ, p)
                       IN  /\ InHeap(occ[p].index)
                           /\ Cell(occ[p].index) =
                                  IF first = p
                                  THEN HeapEntry_new("Variable", occ[p].index)
                                  ELSE HeapEntry_new("Unify", occ[first].index)
            /\ \A i \in d.base..(d.base + d.length - 1) :
                   Cell(i).tag = "Unify" =>
                       /\ d.base <= Cell(i).data
                       /\ Cell(i).data < d.base + d.length
                       /\ Cell(Cell(i).data) = HeapEntry_new("Variable", Cell(i).data)

VariableNames(n) ==
    {UnitOccurrences(n)[p].term.text :
        p \in {q \in 1..Len(UnitOccurrences(n)) :
                  UnitOccurrences(n)[q].term.kind = "Variable"}}

\* two clauses that use the same variable name are compiled, the later one
\* with a second occurrence of it
C1_Witness ==
    \E n, m \in ClauseUnits :
        /\ n < m
        /\ \E p, q \in 1..Len(UnitOccurrences(m)) :
               /\ p < q
               /\ UnitOccurrences(m)[p].term.kind = "Variable"
               /\ UnitOccurrences(m)[p].term = UnitOccurrences(m)[q].term
               /\ UnitOccurrences(m)[p].term.text \in VariableNames(n)
               /\ Cell(UnitOccurrences(m)[q].index).tag = "Unify"

(***************************************************************************)
(* C2                                                                      *)
(***************************************************************************)
\* the block at b.start holds, after its first cell, the functor cell and one
\* cell per parameter in order, 2 + k cells in all: no cell after the first
\* is an Arity cell, and the heap ends or the next block starts right after
BlockCells(b) ==
    LET k == Len(b.term.parameters)
    IN  /\ InHeap(b.start + 1 + k)
        /\ Cell(b.start).tag = "Arity"
        /\ CellIs(b.start + 1, b.term.name)
        /\ \A j \in 1..k :
               IF b.term.parameters[j].kind = "Simple"
               THEN CellIs(b.start + 1 + j, b.term.parameters[j].term)
               ELSE Cell(b.start + 1 + j).tag = "Reference"
        /\ \/ b.start + 2 + k = Heap_len(heap)
           \/ /\ InHeap(b.start + 2 + k)
              /\ Cell(b.start + 2 + k).tag = "Arity"

\* C2 as claimed: the block of a compound term with k parameters is 2 + k
\* contiguous cells, Arity(k), the functor cell, one cell per parameter.
C2_ArityIsParameterCount ==
    \A b \in AllBlocks :
        /\ BlockCells(b)
        /\ Cell(b.start).data = Len(b.term.parameters)

\* C2 as amended: the block of a compound term with k parameters is 2 + k
\* contiguous cells, Arity(k + 1) (the functor cell is counted), the functor
\* cell, one cell per parameter in order.
C2_ArityCountsFunctor ==
    \A b \in AllBlocks :
        /\ BlockCells(b)
        /\ Cell(b.start).data = Len(b.term.parameters) + 1

\* compound terms with no, one, two and three parameters are compiled
C2_Witness ==
    /\ \A k \in 0..3 : \E b \in AllBlocks : Len(b.term.parameters) = k
    /\ \E b \in AllBlocks : b.start + 2 + Len(b.term.parameters) < Heap_len(heap)

(***************************************************************************)
(* C3                                                                      *)
(***************************************************************************)
\* the starts of the blocks the heap is cut into when each Arity cell says
\* how many cells follow it
RECURSIVE BlockStartsFrom(_)
BlockStartsFrom(i) ==
    IF InHeap(i) /\ Cell(i).tag = "Arity"
    THEN {i} \cup BlockStartsFrom(i + 1 + Cell(i).data)
    ELSE {i}

\* C3: a compound parameter is compiled into a block of its own after the
\* parent's block, the parent's slot holds Reference(start of that block),
\* the blocks lie in depth-first pre-order of the AST, and they are pairwise
\* disjoint: the Arity cells cut the heap into consecutive blocks.  The head
\* `a (a (b e f)) c` at base 0 has its blocks at 0, 4 and 7.
C3_NestedBlocks ==
    /\ \A b \in AllBlocks :
           \A j \in 1..Len(b.term.parameters) :
               b.term.parameters[j].kind = "Compound" =>
                   LET sub == SubStart(b.term, b.start, j)
                   IN  /\ InHeap(sub)
                       /\ sub >= b.start + 2 + Len(b.term.parameters)
                       /\ Cell(b.start + 1 + j) = HeapEntry_new("Reference", sub)
                       /\ Cell(sub) =
                              HeapEntry_new("Arity",
                                  Len(b.term.parameters[j].parameters) + 1)
    /\ BlockStartsFrom(0) =
           {i \in 0..Heap_len(heap) : InHeap(i) => Cell(i).tag = "Arity"}
    /\ (Len(units) > 0 /\ units[1].kind = "clause"
            /\ units[1].ast.head = make_compound_term) =>
           /\ {b.start : b \in Range(Blocks(make_compound_term, 0))} = {0, 4, 7}
           /\ Cell(2) = HeapEntry_new("Reference", 4)
           /\ Cell(6) = HeapEntry_new("Reference", 7)
           /\ \A i \in 0..10 : Cell(i).tag = "Arity" <=> i \in {0, 4, 7}

\* a term with two compound parameters, the first of them with a compound
\* parameter of its own, is compiled after another unit
C3_Witness ==
    \E b \in AllBlocks :
        /\ b.start > 0
        /\ \E i, j \in 1..Len(b.term.parameters) :
               /\ i < j
               /\ b.term.parameters[i].kind = "Compound"
               /\ b.term.parameters[j].kind = "Compound"
               /\ \E m \in 1..Len(b.term.parameters[i].parameters) :
                      b.term.parameters[i].parameters[m].kind = "Compound"

(***************************************************************************)
(* C4                                                                      *)
(***************************************************************************)
\* C4: a top-level simple term (head, body goal or query goal) is exactly two
\* consecutive cells, Arity(1) and the term's own cell, so the next top-level
\* term, or the end of the unit, lies two cells on; a clause with a bare atom
\* as head and no body is the two cells Arity(1), Constant(id); a simple
\* parameter of a compound term is the one cell of its slot.
C4_SimpleTerms ==
    /\ \A n \in 1..Len(units) :
           LET u == units[n]
               d == Descriptor(n)
           IN  \A j \in 1..Len(u.terms) :
                   u.terms[j].kind = "Simple" =>
                       /\ d.terms[j].data = u.starts[j]
                       /\ Cell(u.starts[j]) = HeapEntry_new("Arity", 1)
                       /\ CellIs(u.starts[j] + 1, u.terms[j].term)
                       /\ IF j < Len(u.terms)
                          THEN d.terms[j + 1].data = u.starts[j] + 2
                          ELSE d.base + d.length = u.starts[j] + 2
    /\ \A n \in ClauseUnits :
           (units[n].ast.body = << >> /\ units[n].ast.head.kind = "Simple"
                /\ units[n].ast.head.term.kind = "Atom") =>
               LET d == Descriptor(n)
               IN  /\ d.length = 2
                   /\ Cell(d.base) = HeapEntry_new("Arity", 1)
                   /\ Cell(d.base + 1).tag = "Constant"
                   /\ SymbolTable_get(symbol_table, Cell(d.base + 1).data) =
                          units[n].ast.head.term.text
                   /\ (n = Len(units) => Heap_len(heap) = d.base + 2)
    /\ \A b \in AllBlocks :
           \A j \in 1..Len(b.term.parameters) :
               b.term.parameters[j].kind = "Simple" =>
                   /\ CellIs(b.start + 1 + j, b.term.parameters[j].term)
                   /\ Cell(b.start + j).tag # "Arity"

\* a bare atom clause without body, a bare variable head, a simple body goal
\* and a simple query goal are compiled, and a compound with a simple parameter
C4_Witness ==
    /\ \E n \in ClauseUnits :
           /\ units[n].ast.body = << >>
           /\ units[n].ast.head.kind = "Simple"
           /\ units[n].ast.head.term.kind = "Atom"
    /\ \E n \in ClauseUnits :
           /\ units[n].ast.head.kind = "Simple"
           /\ units[n].ast.head.term.kind = "Variable"
           /\ \E j \in 1..Len(units[n].ast.body) : units[n].ast.body[j].kind = "Compound"
    /\ \E n \in QueryUnits :
           \E j \in 1..Len(UnitTerms(n)) : UnitTerms(n)[j].kind = "Simple"

(***************************************************************************)
(* C5                                                                      *)
(***************************************************************************)
AllOccurrences == Flatten([n \in 1..Len(units) |-> UnitOccurrences(n)])

\* the texts of the atoms among the occurrences, in order
AtomTexts(occ) ==
    LET atoms == SelectSeq(occ, LAMBDA o : o.term.kind = "Atom")
    IN  [p \in 1..Len(atoms) |-> atoms[p].term.text]

\* is ds the sequence ts without repetitions, in order of first occurrence
IsDistinct(ds, ts) ==
    /\ \A i, j \in 1..Len(ds) : i # j => ds[i] # ds[j]
    /\ Range(ds) = Range(ts)
    /\ \A i, j \in 1..Len(ds) :
           i < j =>
               \E p \in 1..Len(ts) :
                   /\ ts[p] = ds[i]
                   /\ \A q \in 1..p : ts[q] # ds[j]

C5_TableOf(occ, texts) ==
    LET symbols == symbol_table.symbols
        map == symbol_table.symbols_to_indeces
    IN  /\ IsDistinct(symbols, texts)
        /\ \A id \in 0..(Len(symbols) - 1) :
               SymbolTable_get_index(symbol_table, SymbolTable_get(symbol_table, id))
                   = << id >>
        /\ \A t \in DOMAIN map :
               /\ map[t] \in 0..(Len(symbols) - 1)
               /\ SymbolTable_get(symbol_table, map[t]) = t
        /\ \A t, u \in DOMAIN map : t # u => map[t] # map[u]
        /\ \A p \in 1..Len(occ) :
               occ[p].term.kind = "Atom" =>
                   /\ occ[p].term.text \in DOMAIN map
                   /\ Cell(occ[p].index) =
                          HeapEntry_new("Constant", map[occ[p].term.text])

C5_Table ==
    \A occ \in {AllOccurrences} :
        \A texts \in {AtomTexts(occ)} : C5_TableOf(occ, texts)

C5_Grows ==
    /\ Len(symbol_table'.symbols) >= Len(symbol_table.symbols)
    /\ \A id \in 0..(Len(symbol_table.symbols) - 1) :
           SymbolTable_get(symbol_table', id) = SymbolTable_get(symbol_table, id)

\* C5: within one Compiler an atom text compiles to Constant(id) with one id
\* in every clause, query, functor and argument position, distinct texts have
\* distinct ids, the ids are 0, 1, 2, ... in order of first occurrence, the
\* table is a bijection (get(get_index(s)) = s, get_index(get(id)) = id), and
\* no step removes or renumbers a symbol.
C5_SymbolTable == [](C5_Table) /\ [][C5_Grows]_vars

\* an atom is compiled as a functor in one unit and as an argument or a
\* top-level term in a later one, among at least three symbols
C5_Witness ==
    /\ Len(symbol_table.symbols) >= 3
    /\ \E n, m \in 1..Len(units) :
           /\ n < m
           /\ \E b \in Range(UnitBlocks(n)) :
                  /\ b.term.name.kind = "Atom"
                  /\ \E p \in 1..Len(UnitOccurrences(m)) :
                         /\ UnitOccurrences(m)[p].term = b.term.name
                         /\ \A c \in Range(UnitBlocks(m)) :
                                c.start + 1 # UnitOccurrences(m)[p].index

(***************************************************************************)
(* C6                                                                      *)
(***************************************************************************)
\* C6: every ClauseDescriptor has neck <= length, whatever was compiled
\* before it.
C6_NeckAtMostLength ==
    \A i \in 1..Len(clauses) : clauses[i].neck <= clauses[i].length

(***************************************************************************)
(* C7                                                                      *)
(***************************************************************************)
\* C7: the terms of a clause are 1 + (number of body goals) Reference
\* entries, the first to base, the others to the starts of the body goals in
\* source order, strictly increasing; the terms of a query are one Reference
\* entry per goal in source order, strictly increasing, the first to base.
C7_Terms ==
    \A n \in 1..Len(units) :
        LET u == units[n]
            d == Descriptor(n)
        IN  /\ Len(d.terms) =
                   IF u.kind = "clause"
                   THEN 1 + Len(u.ast.body)
                   ELSE Len(u.ast.sub_queries)
            /\ \A j \in 1..Len(d.terms) :
                   d.terms[j] = HeapEntry_new("Reference", u.starts[j])
            /\ \A j \in 1..(Len(d.terms) - 1) : d.terms[j].data < d.terms[j + 1].data
            /\ Len(d.terms) > 0 => d.terms[1].data = d.base
            /\ \A j \in 1..Len(d.terms) :
                   d.base <= d.terms[j].data /\ d.terms[j].data < d.base + d.length

\* a clause with three body goals and a query with two goals are compiled,
\* neither at the start of the heap
C7_Witness ==
    /\ \E n \in ClauseUnits :
           Len(units[n].ast.body) = 3 /\ Descriptor(n).base > 0
    /\ \E n \in QueryUnits :
           Len(units[n].ast.sub_queries) = 2 /\ Descriptor(n).base > 0

(***************************************************************************)
(* C8                                                                      *)
(***************************************************************************)
PointsToArity(entry) ==
    entry.tag = "Reference" => InHeap(entry.data) /\ Cell(entry.data).tag = "Arity"

\* C8: every Reference entry, in a heap cell or in the terms of a clause or
\* query descriptor, holds an index of the heap whose cell is an Arity cell.
C8_ReferencesPointToArity ==
    /\ \A i \in 0..(Heap_len(heap) - 1) : PointsToArity(Cell(i))
    /\ \A i \in 1..Len(clauses) :
           \A j \in 1..Len(clauses[i].terms) :
               /\ clauses[i].terms[j].tag = "Reference"
               /\ PointsToArity(clauses[i].terms[j])
    /\ \A i \in 1..Len(queries) :
           \A j \in 1..Len(queries[i].terms) :
               /\ queries[i].terms[j].tag = "Reference"
               /\ PointsToArity(queries[i].terms[j])

\* the heap holds Reference cells, one of them to a block that itself holds a
\* Reference cell, and a clause and a query with goals are compiled
C8_Witness ==
    /\ \E i \in 0..(Heap_len(heap) - 1) :
           /\ Cell(i).tag = "Reference"
           /\ \E j \in 1..Cell(Cell(i).data).data :
                  Cell(Cell(i).data + j).tag = "Reference"
    /\ \E i \in 1..Len(clauses) : Len(clauses[i].terms) > 1
    /\ \E i \in 1..Len(queries) : Len(queries[i].terms) > 1

(***************************************************************************)
(* C9                                                                      *)
(***************************************************************************)
\* C9: head_subterms has as many entries as the head's Arity cell declares;
\* entry j is the j-th cell after that Arity cell, with a Reference cell
\* replaced by the Arity cell it points to, a Unify cell by the Variable cell
\* of the first occurrence, any other cell copied; the cells read directly
\* lie in the head's own block.
C9_HeadSubterms ==
    \A n \in ClauseUnits :
        LET d == Descriptor(n)
            head == units[n].ast.head
            arity == Cell(d.base).data
            block == IF head.kind = "Simple" THEN 2 ELSE 2 + Len(head.parameters)
        IN  /\ Cell(d.base).tag = "Arity"
            /\ Len(d.head_subterms) = arity
            /\ d.base + arity < d.base + block
            /\ \A j \in 1..arity :
                   LET cell == Cell(d.base + j)
                   IN  CASE cell.tag = "Reference" ->
                              /\ d.head_subterms[j] = Cell(cell.data)
                              /\ d.head_subterms[j].tag = "Arity"
                         [] cell.tag = "Unify" ->
                              /\ d.head_subterms[j] = Cell(cell.data)
                              /\ d.head_subterms[j] = HeapEntry_new("Variable", cell.data)
                         [] OTHER -> d.head_subterms[j] = cell

\* a clause whose head block holds a Reference cell and a Unify cell is
\* compiled after another unit, and a clause with a simple head
C9_Witness ==
    /\ \E n \in ClauseUnits :
           LET d == Descriptor(n)
           IN  /\ d.base > 0
               /\ \E j \in 1..Len(d.head_subterms) : Cell(d.base + j).tag = "Reference"
               /\ \E j \in 1..Len(d.head_subterms) : Cell(d.base + j).tag = "Unify"
    /\ \E n \in ClauseUnits : units[n].ast.head.kind = "Simple"

(***************************************************************************)
(* C10                                                                     *)
(***************************************************************************)
\* C10: when compile has returned, the spine it created for a query has that
\* query's terms as goals, all clause indices 0..n-1 in order as
\* unifiable_clauses, num_unified_clauses = 0, trail_top = 0 and as base the
\* length of the heap, which is at least base + length of every descriptor.
\* (The spines of a call are pushed in reverse order of the queries.)
C10_InitialSpines ==
    (pc = "idle" /\ calls > 0) =>
        /\ Len(spines) >= Len(queries)
        /\ \A i \in 1..Len(queries) :
               LET spine == spines[Len(spines) + 1 - i]
               IN  /\ spine.goals = queries[i].terms
                   /\ spine.unifiable_clauses = [k \in 1..Len(clauses) |-> k - 1]
                   /\ spine.num_unified_clauses = 0
                   /\ spine.trail_top = 0
                   /\ trail = << >>
                   /\ spine.dereferenced_elements = << >>
                   /\ spine.base = Heap_len(heap)
                   /\ \A k \in 1..Len(clauses) :
                          spine.base >= clauses[k].base + clauses[k].length
                   /\ \A k \in 1..Len(queries) :
                          spine.base >= queries[k].base + queries[k].length

\* compile has returned from a program with two clauses and a query with goals
C10_Witness ==
    /\ pc = "idle"
    /\ Len(clauses) >= 2
    /\ Len(queries) >= 1
    /\ Len(spines) >= 1
    /\ Len(queries[1].terms) > 0

(***************************************************************************)
(* C11                                                                     *)
(***************************************************************************)
\* C11: alloc(n) returns the length the heap had before the call, makes the
\* heap n slots longer, fills the new slots with the Uninitialized entry
\* (data 0) and leaves every older slot as it was; the range a second alloc
\* returns begins at or after the end of the range of the alloc before it.
C11_AllocStep ==
    op'.name = "alloc" =>
        /\ op'.index = Heap_len(heap)
        /\ Heap_len(heap') = Heap_len(heap) + op'.size
        /\ \A i \in Heap_len(heap)..(Heap_len(heap') - 1) :
               Heap_read(heap', i) = [tag |-> "Uninitialized", data |-> 0]
        /\ \A i \in 0..(Heap_len(heap) - 1) : Heap_read(heap', i) = Heap_read(heap, i)
        /\ op.name = "alloc" => op'.index >= op.index + op.size

C11_Alloc == [][C11_AllocStep]_vars

\* an alloc of at least one slot has followed another and a write
C11_Witness ==
    /\ op.name = "alloc"
    /\ op.size > 0
    /\ op.index > 0
    /\ \E i \in 0..(op.index - 1) : Heap_read(heap, i).tag # "Uninitialized"

(***************************************************************************)
(* C12                                                                     *)
(***************************************************************************)
\* C12: write(i, e) with i below the length changes slot i only, and a read(i)
\* that follows returns e; read changes nothing; write or read with i at or
\* past the length panics and leaves the heap as it was.
C12_WriteReadStep ==
    /\ (op'.name = "write" /\ op'.index < Heap_len(heap)) =>
           /\ pc' # "panicked"
           /\ Heap_len(heap') = Heap_len(heap)
           /\ Heap_read(heap', op'.index) = op'.entry
           /\ \A i \in 0..(Heap_len(heap) - 1) :
                  i # op'.index => Heap_read(heap', i) = Heap_read(heap, i)
    /\ (op'.name = "read" /\ op'.index < Heap_len(heap)) =>
           /\ pc' # "panicked"
           /\ heap' = heap
           /\ op'.entry = Heap_read(heap, op'.index)
           /\ (op.name = "write" /\ op.index = op'.index) => op'.entry = op.entry
    /\ (op'.name \in {"write", "read"} /\ op'.index >= Heap_len(heap)) =>
           /\ pc' = "panicked"
           /\ heap' = heap
    /\ pc' = "panicked" =>
           /\ op'.name \in {"write", "read"}
           /\ op'.index >= Heap_len(heap)

C12_WriteRead == [][C12_WriteReadStep]_vars

\* a read has returned the entry written just before to a slot that is not
\* the only one
C12_Witness ==
    /\ op.name = "read"
    /\ pc = "idle"
    /\ Heap_len(heap) > 1
    /\ op.entry \in HeapEntries
    /\ \E i \in 0..(Heap_len(heap) - 1) : Heap_read(heap, i) # op.entry

\* a write past the end of a heap with entries has panicked
C12_PanicWitness ==
    /\ pc = "panicked"
    /\ op.name = "write"
    /\ Heap_len(heap) > 0

(***************************************************************************)
(* C14                                                                     *)
(***************************************************************************)
\* C14: in every compiled query the first textual occurrence of a variable
\* name is the cell Variable(i) at its own heap index i, and no Unify cell of
\* the query points outside the query's range [base, base + length), whatever
\* names the clauses and queries compiled before it used.
C14_QueryVariablesLocal ==
    \A n \in QueryUnits :
        LET occ == units[n].occ
            d == Descriptor(n)
        IN  /\ \A p \in 1..Len(occ) :
                   (occ[p].term.kind = "Variable" /\ FirstOccurrence(occ, p) = p) =>
                       /\ InHeap(occ[p].index)
                       /\ Cell(occ[p].index) = HeapEntry_new("Variable", occ[p].index)
            /\ \A i \in d.base..(d.base + d.length - 1) :
                   Cell(i).tag = "Unify" =>
                       /\ d.base <= Cell(i).data
                       /\ Cell(i).data < d.base + d.length

(***************************************************************************)
(* C15                                                                     *)
(***************************************************************************)
\* C15: whenever compile has returned, there are as many spines as compiled
\* queries, and the terms of a query with goals are the goals of at most one
\* spine.
C15_QueryConsumedOnce ==
    pc = "idle" =>
        /\ Len(spines) = Len(queries)
        /\ \A i \in 1..Len(queries) :
               queries[i].terms # << >> =>
                   Cardinality({k \in 1..Len(spines) :
                                    spines[k].goals = queries[i].terms}) <= 1

(***************************************************************************)
(* C16                                                                     *)
(***************************************************************************)
\* C16: the step of compile that creates the initial spines leaves the spines
\* already on the stack where they are and pushes one spine for each query,
\* the last query first: the k-th spine from the top of the stack has the
\* goals of the k-th query, so the first query is popped first and the last
\* query's spine is the lowest of those pushed.
C16_PushStep ==
    (pc \in {"clauses", "queries"} /\ pc' = "idle") =>
        LET n == Len(queries)
        IN  /\ Len(spines') = Len(spines) + n
            /\ SubSeq(spines', 1, Len(spines)) = spines
            /\ \A k \in 1..n :
                   spines'[Len(spines') + 1 - k].goals = queries[k].terms
            /\ n > 0 => spines'[Len(spines) + 1].goals = queries[n].terms

C16_ReverseOrder == [][C16_PushStep]_vars

\* the spines of two queries with different goals have been pushed
C16_Witness ==
    /\ pc = "idle"
    /\ Len(queries) >= 2
    /\ Len(spines) = Len(queries)
    /\ queries[1].terms # << >>
    /\ queries[2].terms # << >>
    /\ queries[1].terms # queries[2].terms
    /\ spines[1].goals # spines[2].goals

(***************************************************************************)
(* C17                                                                     *)
(***************************************************************************)
\* C17: no step makes the heap shorter, changes a cell below the length the
\* heap had before the step, or changes or removes a ClauseDescriptor or
\* QueryDescriptor already produced; a step that compiles a clause or a query
\* appends one descriptor whose base is the heap length before the step and
\* equals base + length of the descriptor produced before it (0 for the
\* first), and whose base + length is the heap length after the step.
C17_AppendStep ==
    /\ Heap_len(heap') >= Heap_len(heap)
    /\ \A i \in 0..(Heap_len(heap) - 1) : Heap_read(heap', i) = Heap_read(heap, i)
    /\ Len(clauses') >= Len(clauses)
    /\ SubSeq(clauses', 1, Len(clauses)) = clauses
    /\ Len(queries') >= Len(queries)
    /\ SubSeq(queries', 1, Len(queries)) = queries
    /\ Len(units') > Len(units) =>
           LET d == IF units'[Len(units')].kind = "clause"
                    THEN clauses'[Len(clauses')]
                    ELSE queries'[Len(queries')]
           IN  /\ Len(clauses') + Len(queries') = Len(clauses) + Len(queries) + 1
               /\ d.base = Heap_len(heap)
               /\ d.base + d.length = Heap_len(heap')
               /\ d.base = IF Len(units) = 0
                           THEN 0
                           ELSE Descriptor(Len(units)).base
                                    + Descriptor(Len(units)).length
    /\ Len(units') = Len(units) => (heap' = heap /\ clauses' = clauses /\ queries' = queries)

C17_AppendOnly == [][C17_AppendStep]_vars

\* a clause has been compiled after a query of an earlier compile call, and
\* both have cells
C17_Witness ==
    /\ calls = 2
    /\ Len(units) = 3
    /\ units[2].kind = "query"
    /\ units[3].kind = "clause"
    /\ Descriptor(2).length > 0
    /\ Descriptor(3).length > 0
    /\ Descriptor(3).base = Descriptor(2).base + Descriptor(2).length

(***************************************************************************)
(* C18                                                                     *)
(***************************************************************************)
\* C18: after every compiled clause or query, and so whenever compile has
\* returned, the heap is exactly as long as the cells of the compiled terms
\* and every cell of it is an Arity, Constant, Variable, Unify or Reference
\* entry: no cell has the tag Uninitialized that alloc gave it.
C18_NoUninitialized ==
    /\ \A i \in 0..(Heap_len(heap) - 1) :
           /\ Cell(i).tag # "Uninitialized"
           /\ Cell(i).tag \in {"Arity", "Constant", "Variable", "Unify", "Reference"}
    /\ Heap_len(heap) =
           Sum([n \in 1..Len(units) |->
                   Sum([j \in 1..Len(units[n].terms) |-> TopSize(units[n].terms[j])])])

\* compile has returned from a program with a simple top-level term, a compound
\* term without parameters and a compound term inside a compound term
C18_Witness ==
    /\ pc = "idle"
    /\ calls > 0
    /\ \E n \in 1..Len(units) : \E j \in 1..Len(units[n].terms) :
           units[n].terms[j].kind = "Simple"
    /\ \E b \in AllBlocks : Len(b.term.parameters) = 0
    /\ \E b \in AllBlocks : \E j \in 1..Len(b.term.parameters) :
           b.term.parameters[j].kind = "Compound"

====
